---- MODULE Spec2Model ----
(***************************************************************************)
(* A model of src/drive_solver.py: the route data model (DriverAssignment, *)
(* Solution), the two constructors (GreedyPacker, TripOptimizer) and the   *)
(* stochastic improver (StochasticTripOptimizer).                          *)
(*                                                                         *)
(* Numbers.  The program computes with floats.  Every input point is taken *)
(* from Points, a set whose pairwise Euclidean distances are integers, so  *)
(* math.sqrt is exact on every argument it receives, every sum is a sum of *)
(* integers below 2^53, and integer arithmetic gives the program's values. *)
(*                                                                         *)
(* Lists.  Python lists are objects: self.assignments and best_solution    *)
(* are references.  heap maps a reference to the list it denotes; a list   *)
(* no variable refers to any more is dropped from heap.                    *)
(***************************************************************************)
EXTENDS Integers, Sequences, FiniteSets, TLC

VARIABLES
    strategy,        \* which solve() runs: "greedy", "nn", "stochastic"; "api" for calls on routes
    loads,           \* the argument of solve(): a list of Load
    pc,              \* position in solve()
    load_dict,       \* TripOptimizer.load_dict
    distances,       \* local of solve(): the distance table
    neighbor_map,    \* local of solve(): the ranking
    heap,            \* list objects: reference -> list of DriverAssignment
    assignments,     \* Solution.assignments, a reference into heap
    allocated_jobs,  \* local of pick_nearest_neighbor_routes
    for_idx,         \* how many entries of the running for loop are consumed
    haul_distances,  \* local of GreedyPacker.solve
    best_score,      \* local of StochasticTripOptimizer.solve
    best_solution,   \* local of StochasticTripOptimizer.solve, a reference into heap
    temperature,     \* outer loop variable of StochasticTripOptimizer.solve
    trial,           \* inner loop variable i of StochasticTripOptimizer.solve
    current_score,   \* local of StochasticTripOptimizer.solve
    scores,          \* history: the first and the least score pick_nearest_neighbor_routes returned
    ret,             \* the last call on a route or solution and what it returned
    expected         \* history: per route, the initial stops followed by add_load's arguments

vars == <<strategy, loads, pc, load_dict, distances, neighbor_map, heap, assignments,
          allocated_jobs, for_idx, haul_distances, best_score, best_solution,
          temperature, trial, current_score, scores, ret, expected>>

----------------------------------------------------------------------------
(* Bounds of the model *)

\* the longest list of loads given to GreedyPacker.solve and TripOptimizer.solve
MaxLoads == 2
\* the longest list of loads given to StochasticTripOptimizer.solve
MaxStochLoads == 2
\* the most stops of one route in the route-level specification
MaxStops == 2
\* the most routes of the solution in the route-level specification
MaxRoutes == 2
\* the greatest temperature create_shuffled_neighbors_map is called with on
\* its own
MaxTemperature == 2

(* Program constants *)

\* 12 * 60: max_length of pick_nearest_neighbor_routes, and the literal of
\* time_remaining and can_fit_load
max_length == 720
\* the cost of one driver in Solution.evaluate
DriverCost == 500
\* range(2, 30, 5)
TemperatureStart == 2
TemperatureStop == 30
TemperatureStep == 5

None == "None"

\* what a call did: returned value, or raised the named exception
Return(v) == [raised |-> None, value |-> v]
Raise(error) == [raised |-> error, value |-> 0]

\* the value of ret: the call op on the route-th route of the solution (0: on
\* the solution itself) and what it did
Called(op, route, result) ==
    [op |-> op, route |-> route, raised |-> result.raised, value |-> result.value]

----------------------------------------------------------------------------
(* Geometry *)

Point(x, y) == <<x, y>>

RECURSIVE SqrtSearch(_, _, _)
SqrtSearch(n, lo, hi) ==
    IF lo >= hi THEN lo
    ELSE LET mid == (lo + hi + 1) \div 2
         IN  IF mid * mid <= n THEN SqrtSearch(n, mid, hi)
                               ELSE SqrtSearch(n, lo, mid - 1)

Abs(a) == IF a >= 0 THEN a ELSE 0 - a

\* math.sqrt(dx ** 2 + dy ** 2) where that is a perfect square: the root lies
\* between the longer of |dx|, |dy| and their sum
distance(self, other) ==
    LET dx == Abs(self[1] - other[1])
        dy == Abs(self[2] - other[2])
    IN  SqrtSearch(dx * dx + dy * dy, IF dx >= dy THEN dx ELSE dy, dx + dy)

\* The points loads are drawn from: a 3-4-5 triangle's corners, scaled by 60,
\* and (360, 0).  All pairwise distances are integers (180, 240, 300, 360).
Points == {Point(0, 0), Point(180, 0), Point(360, 0), Point(180, 240)}

Load(load_number, pickup, dropoff) ==
    [load_number |-> load_number, pickup |-> pickup, dropoff |-> dropoff]

Load_distance(self) == distance(self.pickup, self.dropoff)

----------------------------------------------------------------------------
(* DriverAssignment: [loads_ |-> the list _loads, total_ |-> _total_distance] *)

RECURSIVE Drive(_, _, _)
Drive(ls, stop_coord, total_driven) ==
    IF ls = <<>>
    THEN total_driven + distance(stop_coord, Point(0, 0))
    ELSE LET load == Head(ls)
             arrival == distance(stop_coord, load.pickup)
             transport == distance(load.pickup, load.dropoff)
         IN  Drive(Tail(ls), load.dropoff, total_driven + arrival + transport)

calc_total_distance(ls) == Drive(ls, Point(0, 0), 0)

DriverAssignment(ls) == [loads_ |-> ls, total_ |-> calc_total_distance(ls)]

\* total_distance(): the object after the call (`not 0.0` is true: a cached 0
\* is recomputed) ...
total_distance_obj(self) ==
    IF self.total_ = 0
    THEN [self EXCEPT !.total_ = calc_total_distance(self.loads_)]
    ELSE self

\* ... and the value it returns
total_distance(self) == total_distance_obj(self).total_

\* filler_distance(): _loads[0] of an empty list raises IndexError
filler_distance(self) ==
    LET ls == self.loads_
        internal_distance ==
            LET RECURSIVE Sum(_)
                Sum(k) == IF k = 0 THEN 0
                          ELSE Sum(k - 1) + distance(ls[k].dropoff, ls[k + 1].pickup)
            IN  Sum(Len(ls) - 1)
    IN  IF ls = <<>> THEN Raise("IndexError")
        ELSE Return(internal_distance + distance(Point(0, 0), ls[1].pickup)
                                      + distance(Point(0, 0), ls[Len(ls)].dropoff))

arrival_cost(self, load) ==
    IF self.loads_ # <<>>
    THEN distance(self.loads_[Len(self.loads_)].dropoff, load.pickup)
    ELSE distance(Point(0, 0), load.pickup)

time_remaining(self) == max_length - total_distance(self)

\* add_load() without line 99: the stop is appended, the cached total is kept
add_load_nocache(self, load) == [self EXCEPT !.loads_ = Append(@, load)]

add_load(self, load) ==
    [loads_ |-> Append(self.loads_, load),
     total_ |-> calc_total_distance(Append(self.loads_, load))]

\* can_fit_load(): the object after the call (append, then pop) ...
can_fit_load_obj(self, possible_job) ==
    LET appended == [self EXCEPT !.loads_ = Append(@, possible_job)]
    IN  [appended EXCEPT !.loads_ = SubSeq(@, 1, Len(@) - 1)]

\* can_fit_load() had it forgotten the last leg back to the depot
can_fit_load_noreturn(self, possible_job) ==
    max_length - (calc_total_distance(Append(self.loads_, possible_job))
                  - distance(possible_job.dropoff, Point(0, 0))) >= 0

\* ... and the value it returns
can_fit_load(self, possible_job) ==
    LET new_time == calc_total_distance(Append(self.loads_, possible_job))
    IN  max_length - new_time >= 0

----------------------------------------------------------------------------
(* Solution *)

RECURSIVE SumSeq(_)
SumSeq(s) == IF s = <<>> THEN 0 ELSE Head(s) + SumSeq(Tail(s))

\* evaluate() without the fixed cost of a driver
evaluate_nodrivers(routes) ==
    SumSeq([k \in 1..Len(routes) |-> total_distance(routes[k])])

\* evaluate(): the value it returns ...
evaluate(routes) ==
    LET total_number_of_driven_minutes ==
            SumSeq([k \in 1..Len(routes) |-> total_distance(routes[k])])
    IN  DriverCost * Len(routes) + total_number_of_driven_minutes

\* ... and the list after the call
evaluate_obj(routes) == [k \in 1..Len(routes) |-> total_distance_obj(routes[k])]

\* a reference no live variable holds: the object a list display creates
NewList(live) == CHOOSE r \in 1..3 : r \notin live

----------------------------------------------------------------------------
(* TripOptimizer: the distance table and the ranking.                      *)
(* A DataFrame is [index |-> its row labels in order, rows |-> label ->    *)
(* row]; a row of distances maps a column label to a number, a row of      *)
(* neighbor_map is the list of its cells.                                  *)

Range(s) == {s[k] : k \in 1..Len(s)}

origin == Load(0, Point(0, 0), Point(0, 0))

\* the dict of build_distance_table: the loads by load_number, then 0 -> origin;
\* its keys in insertion order
dict_keys(ls) == [k \in 1..Len(ls) |-> ls[k].load_number] \o <<0>>

dict_of(ls) ==
    [y \in Range(dict_keys(ls)) |->
        IF y = 0 THEN origin ELSE ls[CHOOSE k \in 1..Len(ls) : ls[k].load_number = y]]

build_distance_table(ls) ==
    LET d == dict_of(ls)
    IN  [index |-> dict_keys(ls),
         rows |-> [y \in DOMAIN d |-> [x \in DOMAIN d |->
                     IF x # y THEN distance(d[y].dropoff, d[x].pickup) ELSE 0]]]

\* row.sort_values().index.tolist(): the labels of S in ascending order of
\* row; sort_values' default quicksort is not stable, so equal values come
\* in any order
RECURSIVE sort_values(_, _)
sort_values(row, S) ==
    IF S = {} THEN {<<>>}
    ELSE UNION {{<<m>> \o t : t \in sort_values(row, S \ {m})} :
                m \in {x \in S : \A y \in S : row[x] <= row[y]}}

\* iloc[:, 1:] of one row
drop_first(y, order) == Tail(order)

RECURSIVE RowsProduct(_, _)
RowsProduct(ks, choices) ==
    IF ks = <<>> THEN {<<>>}
    ELSE {(Head(ks) :> r) @@ f : r \in choices[Head(ks)],
                                 f \in RowsProduct(Tail(ks), choices)}

\* every neighbor_map prioritize_neighbors can return
prioritize_neighbors(dist) ==
    LET labels == Range(dist.index)
        choices == [y \in labels |->
                       {drop_first(y, o) : o \in sort_values(dist.rows[y], labels)}]
    IN  {[index |-> dist.index, rows |-> f] : f \in RowsProduct(dist.index, choices)}

----------------------------------------------------------------------------
(* TripOptimizer.pick_nearest_neighbor_routes *)

\* line 267 at the exit of the while loop: self.assignments.append(driver)
Close(routes, driver, allocated) ==
    [assignments |-> Append(routes, driver), allocated_jobs |-> allocated]

\* lines 250-267: the while loop of one route from its test on, and the
\* append that follows it: self.assignments and allocated_jobs after that
RECURSIVE WhileLoop(_, _, _, _, _, _, _)
WhileLoop(ld, nm, routes, driver, current_load, neighbor_count, allocated) ==
    LET num_columns == Len(nm.index) - 1
        d1 == total_distance_obj(driver)
        Else(d) == IF neighbor_count + 1 >= num_columns
                   THEN Close(routes, d, allocated)
                   ELSE WhileLoop(ld, nm, routes, d, current_load, neighbor_count + 1,
                                  allocated)
    IN  IF ~(d1.total_ < max_length)
        THEN Close(routes, d1, allocated)
        ELSE LET x == nm.rows[current_load][neighbor_count + 1]
             IN  IF x \notin allocated /\ x # 0
                 THEN LET d2 == can_fit_load_obj(d1, ld[x])
                      IN  IF can_fit_load(d1, ld[x])
                          THEN WhileLoop(ld, nm, routes, add_load(d2, ld[x]), x, 0,
                                         allocated \cup {x})
                          ELSE Else(d2)
                 ELSE Else(d1)

\* lines 244-267: one iteration of the for loop over neighbor_map.loc[0];
\* st is [assignments |-> the list self.assignments, allocated_jobs |-> the set]
ForBody(ld, nm, st, starting_job) ==
    IF starting_job \notin st.allocated_jobs
    THEN WhileLoop(ld, nm, st.assignments, DriverAssignment(<<ld[starting_job]>>),
                   starting_job, 0, st.allocated_jobs \cup {starting_job})
    ELSE st

----------------------------------------------------------------------------
(* GreedyPacker.solve *)

\* sorted([(l.distance(), l) for l in loads], reverse=True): tuples with equal
\* distances are ordered by comparing the Load objects, which raises TypeError
RECURSIVE sorted_desc(_)
sorted_desc(S) ==
    IF S = {} THEN <<>>
    ELSE LET m == CHOOSE l \in S : \A o \in S : Load_distance(l) >= Load_distance(o)
         IN  <<m>> \o sorted_desc(S \ {m})

haul_sort(ls) ==
    IF \E j, k \in 1..Len(ls) : j # k /\ Load_distance(ls[j]) = Load_distance(ls[k])
    THEN "TypeError"
    ELSE sorted_desc(Range(ls))

\* sorted(self.assignments, key=arrival_cost): the indices of routes, by
\* arrival cost and, the sort being stable, by position
RECURSIVE candidates(_, _, _)
candidates(routes, load, S) ==
    IF S = {} THEN <<>>
    ELSE LET m == CHOOSE j \in S : \A k \in S :
                      \/ arrival_cost(routes[j], load) < arrival_cost(routes[k], load)
                      \/ /\ arrival_cost(routes[j], load) = arrival_cost(routes[k], load)
                         /\ j <= k
         IN  <<m>> \o candidates(routes, load, S \ {m})

\* the test of line 152
greedy_test(driver, load) == arrival_cost(driver, load) < time_remaining(driver)

\* one iteration of the for loop over haul_distances
GreedyBody(routes, load) ==
    LET touched == [k \in 1..Len(routes) |-> total_distance_obj(routes[k])]
        order == candidates(touched, load, 1..Len(routes))
        fitting == {j \in 1..Len(order) : greedy_test(touched[order[j]], load)}
    IN  IF fitting # {}
        THEN LET j == CHOOSE j \in fitting : \A k \in fitting : j <= k
             IN  [touched EXCEPT ![order[j]] = add_load(@, load)]
        ELSE Append(touched, DriverAssignment(<<load>>))

----------------------------------------------------------------------------
(* Inputs *)

\* load numbers are k + offset for the k-th load of the list
IdOffsets == {0, 1}

LoadLists(n) ==
    UNION {{[k \in 1..len |-> Load(k + off, pd[k][1], pd[k][2])] :
                off \in IdOffsets, pd \in [1..len -> Points \X Points]} :
           len \in 0..n}

Routes == heap[assignments]

NoTable == [index |-> <<>>, rows |-> <<>>]

InitCommon ==
    /\ pc = "start"
    /\ load_dict = <<>>
    /\ distances = NoTable
    /\ neighbor_map = NoTable
    /\ assignments = 1
    /\ allocated_jobs = {}
    /\ for_idx = 0
    /\ haul_distances = <<>>
    /\ best_score = 0           \* the locals of solve() are not bound yet
    /\ best_solution = 0        \* 0 refers to no list
    /\ temperature = 0
    /\ trial = 0
    /\ current_score = 0
    /\ scores = [first |-> 0, least |-> 0]
    /\ ret = Called("none", 0, Return(0))

\* Solution.__init__ with no argument: starting_assignments = []
InitSolve ==
    /\ InitCommon
    /\ heap = (1 :> <<>>)
    /\ expected = <<>>

Init ==
    /\ strategy \in {"greedy", "nn"}
    /\ loads \in LoadLists(MaxLoads)
    /\ InitSolve

----------------------------------------------------------------------------
(* Actions of TripOptimizer.solve; the first two are shared with           *)
(* StochasticTripOptimizer.solve                                           *)

BuildDistanceTable ==
    /\ pc = "start"
    /\ strategy \in {"nn", "stochastic"}
    /\ load_dict' = dict_of(loads)
    /\ distances' = build_distance_table(loads)
    /\ pc' = "prioritize"
    /\ UNCHANGED <<strategy, loads, neighbor_map, heap, assignments, allocated_jobs,
                   for_idx, haul_distances, best_score, best_solution, temperature,
                   trial, current_score, scores, ret, expected>>

PrioritizeNeighbors ==
    /\ pc = "prioritize"
    /\ \E nm \in prioritize_neighbors(distances) : neighbor_map' = nm
    /\ pc' = "pick"
    /\ UNCHANGED <<strategy, loads, load_dict, distances, heap, assignments,
                   allocated_jobs, for_idx, haul_distances, best_score, best_solution,
                   temperature, trial, current_score, scores, ret, expected>>

\* the references the running solve() holds besides self.assignments
Held == IF best_solution = 0 THEN {} ELSE {best_solution}

\* line 239 had it emptied the list in place (assignments.clear()) and not
\* bound a new one
clear_in_place(ref, held) == ref

\* self.assignments = []: the name is bound to a new list
clear_previous_runs(ref, held) == NewList({ref} \cup held)

\* lines 239-242
PickStart ==
    /\ pc = "pick"
    /\ strategy = "nn"
    /\ LET r == clear_previous_runs(assignments, Held)
       IN  /\ assignments' = r
           /\ heap' = [q \in {r} \cup Held |-> IF q = r THEN <<>> ELSE heap[q]]
    /\ allocated_jobs' = {}
    /\ for_idx' = 0
    /\ pc' = "for"
    /\ UNCHANGED <<strategy, loads, load_dict, distances, neighbor_map,
                   haul_distances, best_score, best_solution, temperature, trial,
                   current_score, scores, ret, expected>>

\* lines 244-267, one starting_job
PickFor ==
    /\ pc = "for"
    /\ strategy = "nn"
    /\ for_idx < Len(neighbor_map.rows[0])
    /\ \E b \in {ForBody(load_dict, neighbor_map,
                         [assignments |-> Routes, allocated_jobs |-> allocated_jobs],
                         neighbor_map.rows[0][for_idx + 1])} :
          /\ heap' = [heap EXCEPT ![assignments] = b.assignments]
          /\ allocated_jobs' = b.allocated_jobs
    /\ for_idx' = for_idx + 1
    /\ UNCHANGED <<strategy, loads, pc, load_dict, distances, neighbor_map, assignments,
                   haul_distances, best_score, best_solution, temperature, trial,
                   current_score, scores, ret, expected>>

\* line 268, and the return of TripOptimizer.solve
PickReturn ==
    /\ pc = "for"
    /\ strategy = "nn"
    /\ for_idx = Len(neighbor_map.rows[0])
    /\ ret' = Called("pick_nearest_neighbor_routes", 0, Return(evaluate(Routes)))
    /\ scores' = [first |-> evaluate(Routes), least |-> evaluate(Routes)]
    /\ heap' = [heap EXCEPT ![assignments] = evaluate_obj(Routes)]
    /\ pc' = "done"
    /\ UNCHANGED <<strategy, loads, load_dict, distances, neighbor_map, assignments,
                   allocated_jobs, for_idx, haul_distances, best_score, best_solution,
                   temperature, trial, current_score, expected>>

----------------------------------------------------------------------------
(* Actions of GreedyPacker.solve *)

\* lines 143-144
GreedyStart ==
    /\ pc = "start"
    /\ strategy = "greedy"
    /\ IF haul_sort(loads) = "TypeError"
       THEN /\ pc' = "raised"
            /\ ret' = Called("solve", 0, Raise("TypeError"))
            /\ UNCHANGED <<haul_distances, heap, assignments>>
       ELSE /\ haul_distances' = haul_sort(loads)
            /\ LET r == NewList({assignments})
               IN  /\ assignments' = r
                   /\ heap' = (r :> <<DriverAssignment(<<>>)>>)
            /\ pc' = "for"
            /\ UNCHANGED ret
    /\ for_idx' = 0
    /\ UNCHANGED <<strategy, loads, load_dict, distances, neighbor_map, allocated_jobs,
                   best_score, best_solution, temperature, trial, current_score,
                   scores, expected>>

\* lines 145-163, one load
GreedyFor ==
    /\ pc = "for"
    /\ strategy = "greedy"
    /\ for_idx < Len(haul_distances)
    /\ heap' = [heap EXCEPT ![assignments] = GreedyBody(Routes, haul_distances[for_idx + 1])]
    /\ for_idx' = for_idx + 1
    /\ UNCHANGED <<strategy, loads, pc, load_dict, distances, neighbor_map, assignments,
                   allocated_jobs, haul_distances, best_score, best_solution,
                   temperature, trial, current_score, scores, ret, expected>>

\* line 165
GreedyReturn ==
    /\ pc = "for"
    /\ strategy = "greedy"
    /\ for_idx = Len(haul_distances)
    /\ pc' = "done"
    /\ UNCHANGED <<strategy, loads, load_dict, distances, neighbor_map, heap,
                   assignments, allocated_jobs, for_idx, haul_distances, best_score,
                   best_solution, temperature, trial, current_score, scores,
                   ret, expected>>

Next ==
    \/ BuildDistanceTable
    \/ PrioritizeNeighbors
    \/ PickStart
    \/ PickFor
    \/ PickReturn
    \/ GreedyStart
    \/ GreedyFor
    \/ GreedyReturn

\* GreedyPacker.solve and TripOptimizer.solve on every list of at most MaxLoads loads
Spec == Init /\ [][Next]_vars

----------------------------------------------------------------------------
(* StochasticTripOptimizer *)

\* random.sample(part, len(part)): every reordering of part
Shuffles(part) ==
    {[k \in 1..Len(part) |-> part[f[k]]] : f \in Permutations(1..Len(part))}

Min(a, b) == IF a <= b THEN a ELSE b

\* a call that raised instead of returning a DataFrame
NoFrame(error) == [raised |-> error, index |-> <<>>, rows |-> <<>>]

\* the for loop of create_shuffled_neighbors_map from row_idx on: every
\* jiggled_map it can end with.  neighbor_map.loc[row_idx] looks row_idx up
\* among the row labels and raises KeyError when it is none of them.
RECURSIVE ShuffleRows(_, _, _, _)
ShuffleRows(nm, t, row_idx, jiggled) ==
    IF row_idx >= Len(nm.index)
    THEN {[raised |-> None, index |-> nm.index, rows |-> jiggled]}
    ELSE IF row_idx \notin Range(nm.index) THEN {NoFrame("KeyError")}
    ELSE LET row == nm.rows[row_idx]
             cut == Min(t, Len(row))
             unshuffled_part == SubSeq(row, cut + 1, Len(row))
         IN  UNION {ShuffleRows(nm, t, row_idx + 1,
                                [jiggled EXCEPT ![row_idx] = shuffled_part \o unshuffled_part]) :
                    shuffled_part \in Shuffles(SubSeq(row, 1, cut))}

\* every result of create_shuffled_neighbors_map.  With no load the frame has
\* no column and `jiggled_map.loc[0] = []` assigns an empty list to an empty
\* row: whether pandas accepts that depends on its version, so both outcomes
\* are results.
create_shuffled_neighbors_map(nm, t) ==
    LET zero == [y \in Range(nm.index) |-> [k \in 1..(Len(nm.index) - 1) |-> 0]]
    IN  ShuffleRows(nm, t, 0, zero)
        \cup (IF Len(nm.index) = 1 THEN {NoFrame("ValueError")} ELSE {})

\* the for loop of pick_nearest_neighbor_routes from its k-th entry on: the
\* list self.assignments at its end
RECURSIVE PickLoop(_, _, _, _)
PickLoop(ld, nm, k, st) ==
    IF k > Len(nm.rows[0]) THEN st.assignments
    ELSE PickLoop(ld, nm, k + 1, ForBody(ld, nm, st, nm.rows[0][k]))

\* pick_nearest_neighbor_routes as one call: the list self.assignments it
\* leaves (evaluate() has run on it); the score is evaluate of that list
pick_nearest_neighbor_routes(ld, nm) ==
    evaluate_obj(PickLoop(ld, nm, 1, [assignments |-> <<>>, allocated_jobs |-> {}]))

\* the loops `for temperature in range(2, 30, 5): for i in range(temperature // 2)`:
\* the pair after (t, k), or the empty tuple after the last
NextTrial(t, k) ==
    IF k + 1 < t \div 2 THEN <<t, k + 1>>
    ELSE IF t + TemperatureStep < TemperatureStop THEN <<t + TemperatureStep, 0>>
    ELSE <<>>

\* the test of line 297
better(current, best) == current < best

\* the loads StochasticTripOptimizer.solve is given: picked up at a far corner
\* of the 3-4-5 triangle, dropped at the depot or at the farthest corner
StochPickups == {Point(180, 0), Point(180, 240)}
StochDropoffs == {Point(0, 0), Point(180, 240)}

StochLoadLists(n) ==
    UNION {{[k \in 1..len |-> Load(k + off, pd[k][1], pd[k][2])] :
                off \in IdOffsets, pd \in [1..len -> StochPickups \X StochDropoffs]} :
           len \in 0..n}

InitStoch ==
    /\ strategy = "stochastic"
    /\ loads \in StochLoadLists(MaxStochLoads)
    /\ InitSolve

\* lines 286-288: the deterministic construction, and the loops' first pair
StochFirst ==
    /\ pc = "pick"
    /\ strategy = "stochastic"
    /\ \E made \in {pick_nearest_neighbor_routes(load_dict, neighbor_map)} :
          LET r == clear_previous_runs(assignments, Held)
          IN  /\ assignments' = r
              /\ heap' = (r :> made)
              /\ best_score' = evaluate(made)
              /\ best_solution' = r
              /\ scores' = [first |-> evaluate(made), least |-> evaluate(made)]
    /\ temperature' = TemperatureStart
    /\ trial' = 0
    /\ pc' = "trial"
    /\ UNCHANGED <<strategy, loads, load_dict, distances, neighbor_map, allocated_jobs,
                   for_idx, haul_distances, current_score, ret, expected>>

\* lines 291-300: one trial
StochTrial ==
    /\ pc = "trial"
    /\ \E jiggled_map \in create_shuffled_neighbors_map(neighbor_map, temperature) :
          IF jiggled_map.raised # None
          THEN /\ pc' = "raised"
               /\ ret' = Called("solve", 0, Raise(jiggled_map.raised))
               /\ UNCHANGED <<heap, assignments, best_score, best_solution, temperature,
                              trial, current_score, scores>>
          ELSE \E made \in {pick_nearest_neighbor_routes(load_dict, jiggled_map)} :
               LET r == clear_previous_runs(assignments, Held)
                   score == evaluate(made)
                   wins == better(score, best_score)
                   live == {r} \cup (IF wins THEN {} ELSE {best_solution})
                   after == NextTrial(temperature, trial)
               IN  /\ assignments' = r
                   /\ heap' = [q \in live |-> IF q = r THEN made ELSE heap[q]]
                   /\ current_score' = score
                   /\ best_score' = IF wins THEN score ELSE best_score
                   /\ best_solution' = IF wins THEN r ELSE best_solution
                   /\ scores' = [scores EXCEPT !.least = Min(@, score)]
                   /\ IF after = <<>>
                      THEN pc' = "finish" /\ UNCHANGED <<temperature, trial>>
                      ELSE pc' = pc /\ temperature' = after[1] /\ trial' = after[2]
                   /\ UNCHANGED ret
    /\ UNCHANGED <<strategy, loads, load_dict, distances, neighbor_map, allocated_jobs,
                   for_idx, haul_distances, expected>>

\* lines 301-302
StochReturn ==
    /\ pc = "finish"
    /\ assignments' = best_solution
    /\ heap' = [q \in {best_solution} |-> heap[q]]
    /\ pc' = "done"
    /\ UNCHANGED <<strategy, loads, load_dict, distances, neighbor_map, allocated_jobs,
                   for_idx, haul_distances, best_score, best_solution, temperature,
                   trial, current_score, scores, ret, expected>>

NextStoch ==
    \/ BuildDistanceTable
    \/ PrioritizeNeighbors
    \/ StochFirst
    \/ StochTrial
    \/ StochReturn

\* StochasticTripOptimizer.solve on every list of at most MaxStochLoads loads
SpecStoch == InitStoch /\ [][NextStoch]_vars

----------------------------------------------------------------------------
(* Calls on the routes of a Solution, in any order *)

\* the loads the calls are made with: one of length 0 at the depot, and one
\* whose round trip is 720 exactly
RouteLoads == {Load(1, Point(0, 0), Point(0, 0)), Load(2, Point(180, 0), Point(180, 240))}

RECURSIVE ListsUpTo(_, _)
ListsUpTo(S, n) ==
    IF n = 0 THEN {<<>>}
    ELSE ListsUpTo(S, n - 1)
         \cup {Append(l, x) : l \in {m \in ListsUpTo(S, n - 1) : Len(m) = n - 1}, x \in S}

\* Solution([DriverAssignment(stops), ...])
InitRoute ==
    /\ strategy = "api"
    /\ loads = <<>>
    /\ InitCommon
    /\ \E stops \in ListsUpTo(ListsUpTo(RouteLoads, MaxStops), MaxRoutes) :
          /\ heap = (1 :> [k \in 1..Len(stops) |-> DriverAssignment(stops[k])])
          /\ expected = stops

Frame == <<strategy, loads, pc, load_dict, distances, neighbor_map, assignments,
           allocated_jobs, for_idx, haul_distances, best_score, best_solution,
           temperature, trial, current_score, scores>>

\* the call op on route k left the route as `after` and did `result`
Call(op, k, after, result) ==
    /\ heap' = [heap EXCEPT ![assignments][k] = after]
    /\ ret' = Called(op, k, result)
    /\ UNCHANGED Frame

AddLoad(k, load) ==
    /\ Len(Routes[k].loads_) < MaxStops
    /\ Call("add_load", k, add_load(Routes[k], load),
            Return(calc_total_distance(add_load(Routes[k], load).loads_)))
    /\ expected' = [expected EXCEPT ![k] = Append(@, load)]

CanFitLoad(k, load) ==
    /\ Call("can_fit_load", k, can_fit_load_obj(Routes[k], load),
            Return(can_fit_load(Routes[k], load)))
    /\ UNCHANGED expected

TotalDistance(k) ==
    /\ Call("total_distance", k, total_distance_obj(Routes[k]),
            Return(total_distance(Routes[k])))
    /\ UNCHANGED expected

TimeRemaining(k) ==
    /\ Call("time_remaining", k, total_distance_obj(Routes[k]),
            Return(time_remaining(Routes[k])))
    /\ UNCHANGED expected

\* arrival_cost() calls total_distance() first
ArrivalCost(k, load) ==
    /\ Call("arrival_cost", k, total_distance_obj(Routes[k]),
            Return(arrival_cost(total_distance_obj(Routes[k]), load)))
    /\ UNCHANGED expected

FillerDistance(k) ==
    /\ Call("filler_distance", k, Routes[k], filler_distance(Routes[k]))
    /\ UNCHANGED expected

Evaluate ==
    /\ heap' = [heap EXCEPT ![assignments] = evaluate_obj(Routes)]
    /\ ret' = Called("evaluate", 0, Return(evaluate(Routes)))
    /\ UNCHANGED Frame
    /\ UNCHANGED expected

NextRoute ==
    \/ \E k \in 1..Len(Routes), load \in RouteLoads : AddLoad(k, load)
    \/ \E k \in 1..Len(Routes), load \in RouteLoads : CanFitLoad(k, load)
    \/ \E k \in 1..Len(Routes) : TotalDistance(k)
    \/ \E k \in 1..Len(Routes) : TimeRemaining(k)
    \/ \E k \in 1..Len(Routes), load \in RouteLoads : ArrivalCost(k, load)
    \/ \E k \in 1..Len(Routes) : FillerDistance(k)
    \/ Evaluate

\* every sequence of calls on a solution of at most MaxRoutes routes of at
\* most MaxStops stops
SpecRoute == InitRoute /\ [][NextRoute]_vars

----------------------------------------------------------------------------
(* create_shuffled_neighbors_map called on its own, on a ranking that      *)
(* prioritize_neighbors returned                                           *)

\* a StochasticTripOptimizer whose solve() has run lines 284-285
InitShuffle ==
    /\ strategy = "shuffle"
    /\ loads \in StochLoadLists(MaxStochLoads)
    /\ pc = "pick"
    /\ load_dict = dict_of(loads)
    /\ distances = build_distance_table(loads)
    /\ neighbor_map \in prioritize_neighbors(build_distance_table(loads))
    /\ heap = (1 :> <<>>)
    /\ assignments = 1
    /\ allocated_jobs = {}
    /\ for_idx = 0
    /\ haul_distances = <<>>
    /\ best_score = 0
    /\ best_solution = 0
    /\ temperature = 0
    /\ trial = 0
    /\ current_score = 0
    /\ scores = [first |-> 0, least |-> 0]
    /\ ret = Called("none", 0, Return(0))
    /\ expected = <<>>

\* lines 304-318 with temperature t: ret holds the frame returned or the
\* exception raised; the rows are read into new lists (line 312) and only
\* jiggled_map is written (line 317), so neighbor_map stays as it is
CreateShuffledNeighborsMap(t) ==
    /\ \E jiggled_map \in create_shuffled_neighbors_map(neighbor_map, t) :
          ret' = Called("create_shuffled_neighbors_map", 0,
                        IF jiggled_map.raised # None
                        THEN Raise(jiggled_map.raised)
                        ELSE Return([index |-> jiggled_map.index,
                                     rows |-> jiggled_map.rows]))
    /\ temperature' = t
    /\ UNCHANGED <<strategy, loads, pc, load_dict, distances, neighbor_map, heap,
                   assignments, allocated_jobs, for_idx, haul_distances, best_score,
                   best_solution, trial, current_score, scores, expected>>

NextShuffle == \E t \in 0..MaxTemperature : CreateShuffledNeighborsMap(t)

SpecShuffle == InitShuffle /\ [][NextShuffle]_vars

----------------------------------------------------------------------------
(* Vocabulary of the properties *)

Depot == Point(0, 0)

\* a load's own round trip depot -> pickup -> dropoff -> depot
RoundTrip(load) ==
    distance(Depot, load.pickup) + distance(load.pickup, load.dropoff)
    + distance(load.dropoff, Depot)

\* depot -> first pickup, every pickup -> dropoff, every dropoff -> next pickup,
\* last dropoff -> depot; 0 for no stop
RouteLength(stops) ==
    IF stops = <<>> THEN 0
    ELSE distance(Depot, stops[1].pickup)
         + SumSeq([k \in 1..Len(stops) |-> distance(stops[k].pickup, stops[k].dropoff)])
         + SumSeq([k \in 1..(Len(stops) - 1) |->
                      distance(stops[k].dropoff, stops[k + 1].pickup)])
         + distance(stops[Len(stops)].dropoff, Depot)

TransportSum(stops) ==
    SumSeq([k \in 1..Len(stops) |-> distance(stops[k].pickup, stops[k].dropoff)])

\* how often the load numbered id is a stop of the routes
Visits(routes, id) ==
    Cardinality({rk \in UNION {{<<r, k>> : k \in 1..Len(routes[r].loads_)} :
                               r \in 1..Len(routes)} :
                    routes[rk[1]].loads_[rk[2]].load_number = id})

EveryLoadOnce(routes) ==
    /\ \A k \in 1..Len(loads) : Visits(routes, loads[k].load_number) = 1
    /\ Visits(routes, 0) = 0

\* within the budget, or one load alone that is over it by itself
WithinBudget(route) ==
    \/ total_distance(route) <= max_length
    \/ /\ Len(route.loads_) = 1
       /\ RoundTrip(route.loads_[1]) > max_length

----------------------------------------------------------------------------
(* Properties *)

\* C1: when TripOptimizer.solve returns, every input load is a stop of exactly
\* one route exactly once, and the depot pseudo-load 0 is a stop of none.
C1_EveryLoadOnce ==
    (strategy = "nn" /\ pc = "done") => EveryLoadOnce(Routes)

\* C2: every route TripOptimizer.solve returns has total_distance() <= 720,
\* unless it holds exactly one load whose own round trip exceeds 720.
C2_BudgetRespected ==
    (strategy = "nn" /\ pc = "done") =>
        \A r \in 1..Len(Routes) : WithinBudget(Routes[r])

\* a returned route of two loads that uses the budget to the last minute
C2_Witness ==
    /\ strategy = "nn"
    /\ pc = "done"
    /\ \E r \in 1..Len(Routes) :
          /\ Len(Routes[r].loads_) = 2
          /\ \A k \in 1..2 : Routes[r].loads_[k].load_number # 0
          /\ total_distance(Routes[r]) = max_length

\* C3: every route of GreedyPacker.solve, while it runs and when it returns,
\* has total_distance() <= 720, unless it holds exactly one load whose own
\* round trip exceeds 720 (a load is appended to an open route only if the
\* route stays within 720).
C3_GreedyBudget ==
    (strategy = "greedy" /\ pc \in {"for", "done"}) =>
        \A r \in 1..Len(Routes) : WithinBudget(Routes[r])

\* C4: StochasticTripOptimizer.solve returns a solution whose evaluate() is
\* best_score, the least of all scores and so at most the first one; a trial
\* replaces the best solution only with a strictly lower score, and a trial
\* that does not replace it leaves its routes as they were.
C4_BestKept ==
    /\ [](pc = "done" =>
            /\ evaluate(Routes) = best_score
            /\ best_score = scores.least
            /\ best_score <= scores.first)
    /\ [][(pc = "trial" /\ pc' # "raised") =>
            /\ best_solution' # best_solution => current_score' < best_score
            /\ best_solution' # best_solution => best_score' = current_score'
            /\ best_solution' = best_solution =>
                  /\ best_score' = best_score
                  /\ heap'[best_solution'] = heap[best_solution]]_vars

\* solve() returned a solution that a trial found and that beats the
\* deterministic construction
C4_Witness ==
    /\ strategy = "stochastic"
    /\ pc = "done"
    /\ best_score < scores.first

\* C5: for no load, GreedyPacker.solve and TripOptimizer.solve both return a
\* solution of zero routes whose evaluate() is 0.
C5_EmptyLoadSet ==
    (pc = "done" /\ loads = <<>>) =>
        /\ Len(Routes) = 0
        /\ evaluate(Routes) = 0

\* C6: GreedyPacker.solve raises nothing, takes the loads in non-increasing
\* order of transport distance, and returns every load in exactly one route
\* exactly once.
C6_GreedyCompletes ==
    strategy = "greedy" =>
        /\ pc # "raised"
        /\ \A j, k \in 1..Len(haul_distances) :
              j < k => Load_distance(haul_distances[j]) >= Load_distance(haul_distances[k])
        /\ pc = "done" => EveryLoadOnce(Routes)

Stops(h, ref) == [r \in 1..Len(h[ref]) |-> h[ref][r].loads_]

\* C7: evaluate() returns 500 * the number of routes + the sum of the routes'
\* lengths over their current stops; a second call returns the same, and a
\* call changes no route's stops.
C7_EvaluateCost ==
    /\ [](ret.op = "evaluate" =>
            ret.value = 500 * Len(Routes)
                        + SumSeq([r \in 1..Len(Routes) |-> RouteLength(Routes[r].loads_)]))
    /\ [][ret'.op = "evaluate" =>
            /\ Stops(heap', assignments') = Stops(heap, assignments)
            /\ ret.op = "evaluate" => ret'.value = ret.value]_vars

\* evaluate() returned the cost of two routes, one of them of two stops
C7_Witness ==
    /\ ret.op = "evaluate"
    /\ Len(Routes) = 2
    /\ Len(Routes[1].loads_) = 2
    /\ Len(Routes[2].loads_) = 1
    /\ ret.value > 2 * 500

\* C8: filler_distance() raises nothing and returns total_distance() less the
\* loads' transport distances, 0 for a route of no stop.
C8_FillerDefined ==
    ret.op = "filler_distance" =>
        /\ ret.raised = None
        /\ ret.value = total_distance(Routes[ret.route])
                       - TransportSum(Routes[ret.route].loads_)
        /\ Routes[ret.route].loads_ = <<>> => ret.value = 0

\* C9: after any calls, a route's stops are its initial stops followed by the
\* arguments of the add_load calls in call order, and total_distance() returns
\* what calc_total_distance() computes for them.
C9_RouteState ==
    strategy = "api" =>
        \A k \in 1..Len(Routes) :
            /\ Routes[k].loads_ = expected[k]
            /\ total_distance(Routes[k]) = RouteLength(Routes[k].loads_)
            /\ (ret.op = "total_distance" /\ ret.route = k) =>
                  ret.value = RouteLength(Routes[k].loads_)

\* add_load() has just given a second stop to a route, and the total the
\* route caches is no longer that of its first stop alone
C9_Witness ==
    /\ strategy = "api"
    /\ ret.op = "add_load"
    /\ Len(expected[ret.route]) = 2
    /\ expected[ret.route][1] # expected[ret.route][2]
    /\ Routes[ret.route].total_ # RouteLength(<<expected[ret.route][1]>>)
    /\ Routes[ret.route].total_ = RouteLength(expected[ret.route])

\* C10: when pick_nearest_neighbor_routes has appended a route, no load that
\* is unallocated and not the depot can be appended to it within the budget.
C10_ClosedWhenNothingFits ==
    (strategy = "nn" /\ pc = "for" /\ Len(Routes) > 0) =>
        \A x \in DOMAIN load_dict :
            (x \notin allocated_jobs /\ x # 0) =>
                ~can_fit_load(Routes[Len(Routes)], load_dict[x])

\* C11: in the ranking prioritize_neighbors returns, the row of every id y
\* (0 and the load ids) holds every other id exactly once, never y itself,
\* in non-decreasing order of distances[y][x]; also when distances[y][x] = 0
\* for some x other than y.
C11_RankingComplete ==
    (strategy = "nn" /\ pc \in {"pick", "for", "done"}) =>
        \A y \in Range(neighbor_map.index) :
            LET row == neighbor_map.rows[y]
            IN  /\ \A x \in Range(neighbor_map.index) \ {y} :
                      Cardinality({k \in 1..Len(row) : row[k] = x}) = 1
                /\ \A k \in 1..Len(row) : row[k] # y
                /\ \A j, k \in 1..Len(row) :
                      j < k => distances.rows[y][row[j]] <= distances.rows[y][row[k]]

\* how often v is among the first n cells of row
Count(row, n, v) == Cardinality({k \in 1..n : row[k] = v})

\* C12: create_shuffled_neighbors_map(neighbor_map, t) raises nothing and
\* returns a ranking with a row for every id of neighbor_map; the first
\* min(t, length) cells of each row are a permutation of the same cells of
\* the original row and the later cells are the original's, value and place;
\* neighbor_map itself is left as it was.
C12_PerturbedRanking ==
    /\ [](ret.op = "create_shuffled_neighbors_map" =>
            /\ ret.raised = None
            /\ Range(ret.value.index) = Range(neighbor_map.index)
            /\ \A y \in Range(neighbor_map.index) :
                  LET row == neighbor_map.rows[y]
                      jiggled == ret.value.rows[y]
                      cut == Min(temperature, Len(row))
                  IN  /\ Len(jiggled) = Len(row)
                      /\ \A v \in Range(row) \cup Range(jiggled) :
                            Count(jiggled, cut, v) = Count(row, cut, v)
                      /\ \A k \in (cut + 1)..Len(row) : jiggled[k] = row[k])
    /\ [][ret'.op = "create_shuffled_neighbors_map" =>
            neighbor_map' = neighbor_map]_vars

====
